---- MODULE Spec2Model ----
(***************************************************************************)
(* A model of ETCD Box (src/main.go): the tree of Node objects that is     *)
(* built from the keys of an etcd store, and the connect / search /        *)
(* disconnect operations that populate and clear it.                       *)
(*                                                                         *)
(* Strings of the program are sequences of one-character strings, so that  *)
(* strings.TrimPrefix and strings.Split are computed, not assumed.         *)
(* Node objects live in a heap: a function from object identities          *)
(* (positive integers) to Node records; a pointer is an identity, nil is   *)
(* Nil.                                                                    *)
(***************************************************************************)
EXTENDS Integers, Sequences, FiniteSets, TLC

VARIABLES
    store,        \* the keys held by the etcd store behind the endpoints
    heap,         \* the Node objects: identity -> Node
    etcdConfigs,  \* var etcdConfigs map[string]*EtcdConfig (the Client field)
    clients,      \* the clientv3 clients ever created: handle -> "open" | "closed"
    tasks,        \* the running goroutines of connect: number -> goroutine
    started,      \* how many goroutines connect has started so far
    ui,           \* the UI thread: idle, or blocked in search's Client.Get
    visible,      \* visibility of the context-menu actions (show*Action)
    mouseNode,    \* the node under mousePosition (nodes.ItemAt(mousePosition))
    items,        \* the items the tree view shows below "All"
    last,         \* the operation that completed last, and what it reported
    bKeys,        \* in the addNode specification: the key list being inserted
    bIdx,         \* in the addNode specification: the next key to insert
    bPass,        \* in the addNode specification: 1 = first insertion, 2 = again
    bFirst        \* in the addNode specification: the heap after the first pass

vars == <<store, heap, etcdConfigs, clients, tasks, started, ui, visible,
          mouseNode, items, last, bKeys, bIdx, bPass, bFirst>>

\* ------------------------------------------------------------------ bounds
\* total number of connect goroutines started in one behaviour
MaxConnects == 2
\* number of configurations added through the Add New Connection dialog
MaxAdds == 1
\* length of the key list handed to addNode in the addNode specification
MaxKeys == 3

\* ---------------------------------------------------------------- strings
Nil == 0

Max(S) == CHOOSE x \in S : \A y \in S : y <= x
Min(S) == CHOOSE x \in S : \A y \in S : x <= y

\* byte values of the characters used in keys
CharCode(c) == CASE c = "/" -> 47 [] c = "a" -> 97 [] c = "b" -> 98
                 [] c = "r" -> 114 [] c = "1" -> 49 [] c = "2" -> 50

HasPrefix(s, p) == Len(p) <= Len(s) /\ SubSeq(s, 1, Len(p)) = p

\* strings.TrimPrefix
TrimPrefix(s, p) == IF HasPrefix(s, p) THEN SubSeq(s, Len(p) + 1, Len(s)) ELSE s

\* strings.Split(s, sep) for a one-character separator: always at least one
\* field; an empty s gives one empty field
RECURSIVE Split(_, _)
Split(s, sep) ==
    LET hits == {i \in 1..Len(s) : s[i] = sep}
    IN  IF hits = {} THEN <<s>>
        ELSE LET i == Min(hits)
             IN  <<SubSeq(s, 1, i - 1)>> \o Split(SubSeq(s, i + 1, Len(s)), sep)

\* byte-wise lexicographic order, the order in which etcd returns keys
RECURSIVE LexLess(_, _)
LexLess(s, t) ==
    IF Len(t) = 0 THEN FALSE
    ELSE IF Len(s) = 0 THEN TRUE
    ELSE IF s[1] = t[1] THEN LexLess(Tail(s), Tail(t))
    ELSE CharCode(s[1]) < CharCode(t[1])

RECURSIVE SortKeys(_)
SortKeys(S) ==
    IF S = {} THEN <<>>
    ELSE LET m == CHOOSE k \in S : \A o \in S \ {k} : LexLess(k, o)
         IN  <<m>> \o SortKeys(S \ {m})

\* client.Get(ctx, prefix, WithPrefix(), WithKeysOnly()): the keys of the
\* store that start with prefix, in key order (WithPrefix on an empty key
\* selects every key)
GetPrefix(st, prefix) == SortKeys({k \in st : HasPrefix(k, prefix)})

Range(s) == {s[i] : i \in 1..Len(s)}

\* ------------------------------------------------------------------ nodes
IconMenu == "img/menu.ico"
IconUnconnected == "img/unconnected.ico"
IconConnected == "img/connected.ico"
IconSearch == "img/search.ico"
IconDir == "img/dir.ico"
IconFile == "img/file.ico"

newNode(name, key, icon, rootName, parent) ==
    [name |-> name, key |-> key, icon |-> icon, parent |-> parent,
     children |-> <<>>, rootName |-> rootName, connected |-> FALSE]

\* the identity of the next object allocated in heap h
Alloc(h) == Min({i \in 1..(Cardinality(DOMAIN h) + 1) : i \notin DOMAIN h})

\* addNode, lines 77-84: the child of d named nm; the loop does not break, so
\* the last such child wins; Nil when there is none
FindChildByKey(h, d, nm) ==
    LET hit == {i \in 1..Len(h[d].children) : h[h[d].children[i]].key = nm}
    IN  IF hit = {} THEN Nil ELSE h[d].children[Max(hit)]

FindChild(h, d, nm) ==
    LET hit == {i \in 1..Len(h[d].children) : h[h[d].children[i]].name = nm}
    IN  IF hit = {} THEN Nil ELSE h[d].children[Max(hit)]

\* addNode, lines 85-92: a new child of d for keys[1]
AppendChild(h, d, keys, key, rootName) ==
    LET id == Alloc(h)
        icon == IF Len(keys) = 1 THEN IconFile ELSE IconDir
    IN  (id :> newNode(keys[1], key, icon, rootName, d))
            @@ [h EXCEPT ![d].children = Append(@, id)]

RECURSIVE addNode(_, _, _, _, _)
addNode(h, d, keys, key, rootName) ==
    IF Len(keys) = 0 THEN h
    ELSE LET found == FindChild(h, d, keys[1])
             h2 == IF found = Nil THEN AppendChild(h, d, keys, key, rootName) ELSE h
             child == IF found = Nil THEN Alloc(h) ELSE found
         IN  addNode(h2, child, Tail(keys), key, rootName)

\* the loops of connect (692-695) and search (726-729): every key of resp is
\* split into its path and added below node n
RECURSIVE addKeys(_, _, _)
addKeys(h, n, resp) ==
    IF resp = <<>> THEN h
    ELSE addKeys(addNode(h, n, Split(TrimPrefix(resp[1], <<"/">>), "/"),
                         resp[1], h[n].name),
                 n, Tail(resp))

\* the objects reachable from n through children, n excluded
RECURSIVE Descendants(_, _)
Descendants(h, n) ==
    LET cs == Range(h[n].children)
    IN  cs \cup UNION {Descendants(h, c) : c \in cs}

\* node.children = nil (search 717, disconnect 752): the subtree below n is
\* dropped; its objects are unreachable from the tree and leave the heap
resetChildren(h, n) ==
    [x \in DOMAIN h \ Descendants(h, n) |->
        IF x = n THEN [h[n] EXCEPT !.children = <<>>] ELSE h[x]]

refreshNodeIcon(h, n, icon) == [h EXCEPT ![n].icon = icon]

\* ----------------------------------------------- the addNode specification
\* addNode as a function: a key list is inserted below an empty root node,
\* key by key, and then inserted a second time.
AllId == 1
RootName1 == <<"r", "1">>
RootName2 == <<"r", "2">>

BuildKeyUniverse ==
    { <<"/", "a">>, <<"/", "a", "/", "b">>, <<"/", "b">>, <<"b">>,
      <<"/", "a", "/">> }

BuildRoot == 2

BuildHeap ==
    (AllId :> [newNode(<<"A", "l", "l">>, <<>>, IconMenu, <<>>, Nil)
                  EXCEPT !.children = <<BuildRoot>>])
    @@ (BuildRoot :> newNode(RootName1, <<>>, IconUnconnected, <<>>, AllId))

\* the tree below n without the identities of its objects: per child, in
\* sibling order, its label, its key when it is a leaf, and its own subtree
RECURSIVE Shape(_, _)
Shape(h, n) ==
    [i \in 1..Len(h[n].children) |->
        LET c == h[n].children[i]
        IN  [name |-> h[c].name,
             key |-> IF h[c].children = <<>> THEN h[c].key ELSE <<>>,
             sub |-> Shape(h, c)]]

SessionIdle ==
    /\ store = {}
    /\ etcdConfigs = (RootName1 :> [Client |-> Nil])
    /\ clients = <<>>
    /\ tasks = <<>>
    /\ started = 0
    /\ ui = [pc |-> "idle", node |-> Nil, key |-> <<>>]
    /\ visible = [connect |-> TRUE, reconnect |-> TRUE, disconnect |-> TRUE,
                  search |-> TRUE, delete |-> TRUE]
    /\ mouseNode = Nil
    /\ items = {BuildRoot}
    /\ last = [op |-> "none"]

InitBuild ==
    /\ SessionIdle
    /\ heap = BuildHeap
    /\ bKeys \in UNION {[1..n -> BuildKeyUniverse] : n \in 0..MaxKeys}
    /\ bIdx = 1
    /\ bPass = 1
    /\ bFirst = <<>>

BuildInsertKey ==
    heap' = addNode(heap, BuildRoot,
                    Split(TrimPrefix(bKeys[bIdx], <<"/">>), "/"),
                    bKeys[bIdx], heap[BuildRoot].name)

\* node.addNode(keys, string(v.Key), node.name) for the next key of the list
BuildInsert ==
    /\ bPass = 1
    /\ bIdx <= Len(bKeys)
    /\ BuildInsertKey
    /\ bIdx' = bIdx + 1
    /\ UNCHANGED <<items, store, etcdConfigs, clients, tasks, started, ui, visible,
                   mouseNode, last, bKeys, bPass, bFirst>>

\* the list is exhausted: remember the tree and start over on the same node
BuildAgain ==
    /\ bPass = 1
    /\ bIdx > Len(bKeys)
    /\ bPass' = 2
    /\ bIdx' = 1
    /\ bFirst' = heap
    /\ UNCHANGED <<items, store, heap, etcdConfigs, clients, tasks, started, ui,
                   visible, mouseNode, last, bKeys>>

\* the same keys are inserted again into the tree already built from them
BuildReinsert ==
    /\ bPass = 2
    /\ bIdx <= Len(bKeys)
    /\ BuildInsertKey
    /\ bIdx' = bIdx + 1
    /\ UNCHANGED <<items, store, etcdConfigs, clients, tasks, started, ui, visible,
                   mouseNode, last, bKeys, bPass, bFirst>>

NextBuild == BuildInsert \/ BuildAgain \/ BuildReinsert

SpecBuild == InitBuild /\ [][NextBuild]_vars

\* ---- the tree below a node, as the claims speak of it
\* OnMouseDown, line 568: a node is treated as a key (a leaf) when it has no
\* children and carries a key
IsLeaf(h, x) == h[x].children = <<>> /\ h[x].key # <<>>

Leaves(h, n) == {x \in Descendants(h, n) : IsLeaf(h, x)}
Directories(h, n) == {x \in Descendants(h, n) : ~IsLeaf(h, x)}
LeafKeys(h, n) == {h[x].key : x \in Leaves(h, n)}

PathOf(k) == Split(TrimPrefix(k, <<"/">>), "/")

\* the proper, non-empty prefixes of the paths of the keys of K
NonTerminalPrefixes(K) ==
    UNION {{SubSeq(PathOf(k), 1, j) : j \in 1..(Len(PathOf(k)) - 1)} : k \in K}

Distinct(s) == \A i, j \in 1..Len(s) : i # j => s[i] # s[j]

BuildDone == bPass = 2

\* C7: building the subtree of an empty node from a list K of distinct keys
\* gives exactly |K| leaves, whose keys are the keys of K, and as many
\* directories as there are distinct non-terminal path prefixes in K.
C7_LeavesAndDirectories ==
    (BuildDone /\ Distinct(bKeys)) =>
        /\ Cardinality(Leaves(bFirst, BuildRoot)) = Len(bKeys)
        /\ LeafKeys(bFirst, BuildRoot) = Range(bKeys)
        /\ Cardinality(Directories(bFirst, BuildRoot))
              = Cardinality(NonTerminalPrefixes(Range(bKeys)))

\* C8: inserting the keys of K a second time into the tree built from K
\* creates no node and changes no label, key, icon or sibling order.
C8_ReinsertChangesNothing == bPass = 2 => heap = bFirst

\* a second insertion has run to its end over a list that built a real tree
C8_Witness ==
    /\ bPass = 2
    /\ bIdx > Len(bKeys)
    /\ Len(bKeys) >= 2
    /\ Cardinality(Descendants(heap, BuildRoot)) >= 3

\* ----------------------------------------------- the session specification
\* The program after main has built the tree model: the window is up, the
\* user clicks nodes and picks context-menu actions on the UI thread, and
\* every connect runs its goroutine concurrently with the UI thread and with
\* the goroutines of other connects.

\* the names configured in config.json, in the order newNodeTreeModel meets
\* them
RootSeq == <<RootName1>>
RootNames == Range(RootSeq)

\* the nodes of the configurations: the children of the "All" node
Roots == Range(heap[AllId].children)

\* the keys an etcd store may hold, and what the user may type in the
\* search dialog
StoreKeys == { <<"/", "a", "/", "b">>, <<"b">> }
SearchKeys == { <<>>, <<"/", "a", "/", "b">>, <<"/", "b">> }

\* a goroutine's pointer into a subtree that was dropped from the tree: what
\* it still adds there is never seen again
Stale == -1

buildVars == <<bKeys, bIdx, bPass, bFirst>>

\* newNodeTreeModel, lines 106-117: the "All" node and one unconnected node
\* per configuration; the nodes of the configurations get rootName ""
newNodeTreeModel(names) ==
    [x \in 1..(Len(names) + 1) |->
        IF x = AllId
        THEN [newNode(<<"A", "l", "l">>, <<>>, IconMenu, <<>>, Nil)
                 EXCEPT !.children = [i \in 1..Len(names) |-> i + 1]]
        ELSE newNode(names[x - 1], <<>>, IconUnconnected, <<>>, AllId)]

Init ==
    /\ store \in SUBSET StoreKeys
    /\ heap = newNodeTreeModel(RootSeq)
    /\ etcdConfigs = [nm \in RootNames |-> [Client |-> Nil]]
    /\ clients = <<>>
    /\ tasks = <<>>
    /\ started = 0
    /\ ui = [pc |-> "idle", node |-> Nil, key |-> <<>>]
    /\ visible = [connect |-> TRUE, reconnect |-> TRUE, disconnect |-> TRUE,
                  search |-> TRUE, delete |-> TRUE]
    /\ mouseNode = Nil
    /\ items = Range(heap[AllId].children)
    /\ last = [op |-> "none"]
    /\ bKeys = <<>>
    /\ bIdx = 1
    /\ bPass = 0
    /\ bFirst = <<>>

\* etcdConfigs[name], nil when the map has no such name
HasConfig(cfg, nm) == nm \in DOMAIN cfg
ClientOf(cfg, nm) == IF HasConfig(cfg, nm) THEN cfg[nm].Client ELSE Nil

\* what a session operation on root n can change: the root's children, its
\* icon, its connected flag and the client stored in its configuration
RootState(h, cfg, n) ==
    [children |-> h[n].children, icon |-> h[n].icon,
     connected |-> h[n].connected, client |-> ClientOf(cfg, h[n].name)]

\* the goroutines of connect that are running on root n
InFlight(ts, n) == {t \in DOMAIN ts : ts[t].node = n}

\* ---- connect, lines 655-713
\* a goroutine that holds the first configuration whatever the node
NewTaskFirstConfig(h, n) ==
    [node |-> n, name |-> RootName1, pc |-> "new", client |-> Nil,
     resp |-> <<>>, ki |-> 0, si |-> 0, cur |-> Nil, ecInMap |-> TRUE]

\* the goroutine of line 659, about to run line 664; it holds the
\* configuration ec of line 656, which is the one in etcdConfigs under its
\* name (ecInMap) until that entry is deleted
NewTask(h, n) ==
    [node |-> n, name |-> h[n].name, pc |-> "new", client |-> Nil,
     resp |-> <<>>, ki |-> 0, si |-> 0, cur |-> Nil, ecInMap |-> TRUE]

\* connect(node): with a configuration of the node's name (line 656) the
\* goroutine is started; otherwise nothing happens (line 711)
connectStarts(cfg, h, n) == HasConfig(cfg, h[n].name)

connect(ts, k, cfg, h, n) ==
    IF connectStarts(cfg, h, n) THEN ((k + 1) :> NewTask(h, n)) @@ ts ELSE ts

connectCount(k, cfg, h, n) == IF connectStarts(cfg, h, n) THEN k + 1 ELSE k

\* the goroutine t has returned
Without(ts, t) == [x \in DOMAIN ts \ {t} |-> ts[x]]

\* treeModel.PublishItemsReset(node), line 698, is reached only by a goroutine
\* that got past the listing; the returns of lines 673, 682 and 689 come
\* before it
connectResets(result) == IF result \in {"ok", "errExpand"} THEN 1 ELSE 0

\* what a returning goroutine leaves behind: how it ended, whether it put up
\* the "Connect failed." message box, the client it created, and how many
\* reset notifications it published
Ended(t, result) ==
    [op |-> "connectEnd", task |-> t, node |-> tasks[t].node,
     name |-> tasks[t].name, result |-> result, err |-> result # "ok",
     client |-> tasks[t].client, resets |-> connectResets(result)]

\* the goroutine moves on to the next key of the response, or leaves the loop
NextKey(tk) ==
    IF tk.ki < Len(tk.resp)
    THEN [tk EXCEPT !.ki = tk.ki + 1, !.si = 1, !.cur = tk.node, !.pc = "scan"]
    ELSE [tk EXCEPT !.pc = "finish", !.resp = <<>>, !.ki = 0, !.si = 0,
                    !.cur = Nil]

\* line 93: addNode recurses into child with the rest of the path
Descend(tk, child) ==
    IF tk.si < Len(PathOf(tk.resp[tk.ki]))
    THEN [tk EXCEPT !.cur = child, !.si = tk.si + 1, !.pc = "scan"]
    ELSE NextKey(tk)

\* pointers of goroutines into the subtree below n go stale when it is dropped
dropCursors(ts, h, n) ==
    [t \in DOMAIN ts |->
        IF ts[t].cur \in Descendants(h, n)
        THEN [ts[t] EXCEPT !.cur = Stale] ELSE ts[t]]

\* lines 664-674: clientv3.New
TaskNew(t) ==
    /\ tasks[t].pc = "new"
    /\ \/ /\ tasks' = Without(tasks, t)
          /\ last' = Ended(t, "errNew")
          /\ UNCHANGED clients
       \/ /\ tasks' = [tasks EXCEPT ![t].client = t, ![t].pc = "status"]
          /\ clients' = (t :> "open") @@ clients
          /\ last' = [op |-> "none"]
    /\ UNCHANGED <<items, store, heap, etcdConfigs, started, ui, visible, mouseNode,
                   buildVars>>

\* lines 675-683: client.Status within 2 seconds, then ec.Client = client
TaskStatus(t) ==
    /\ tasks[t].pc = "status"
    /\ \/ /\ tasks' = Without(tasks, t)
          /\ last' = Ended(t, "errStatus")
          /\ UNCHANGED etcdConfigs
       \/ /\ clients[tasks[t].client] = "open"
          /\ tasks' = [tasks EXCEPT ![t].pc = "get"]
          /\ etcdConfigs' =
                IF tasks[t].ecInMap
                THEN [etcdConfigs EXCEPT
                         ![tasks[t].name].Client = tasks[t].client]
                ELSE etcdConfigs
          /\ last' = [op |-> "none"]
    /\ UNCHANGED <<items, store, heap, clients, started, ui, visible, mouseNode,
                   buildVars>>

\* lines 684-690: client.Get "/" with prefix, keys only
TaskGet(t) ==
    /\ tasks[t].pc = "get"
    /\ \/ /\ tasks' = Without(tasks, t)
          /\ last' = Ended(t, "errGet")
       \/ /\ clients[tasks[t].client] = "open"
          /\ tasks' = [tasks EXCEPT ![t] =
                          NextKey([@ EXCEPT !.resp = GetPrefix(store, <<"/">>)])]
          /\ last' = [op |-> "none"]
    /\ UNCHANGED <<items, store, heap, etcdConfigs, clients, started, ui, visible,
                   mouseNode, buildVars>>

\* addNode, lines 77-84, for one segment of the path of the current key: the
\* goroutine looks for the child; found, it recurses into it
TaskScan(t) ==
    /\ tasks[t].pc = "scan"
    /\ LET tk == tasks[t]
           nm == PathOf(tk.resp[tk.ki])[tk.si]
       IN  tasks' = [tasks EXCEPT ![t] =
                IF tk.cur = Stale THEN NextKey(tk)
                ELSE IF FindChild(heap, tk.cur, nm) # Nil
                     THEN Descend(tk, FindChild(heap, tk.cur, nm))
                     ELSE [tk EXCEPT !.pc = "append"]]
    /\ last' = [op |-> "none"]
    /\ UNCHANGED <<items, store, heap, etcdConfigs, clients, started, ui, visible,
                   mouseNode, buildVars>>

\* addNode, lines 85-93: no child was found; the goroutine creates one,
\* appends it and recurses into it
TaskAppend(t) ==
    /\ tasks[t].pc = "append"
    /\ LET tk == tasks[t]
           path == PathOf(tk.resp[tk.ki])
       IN  IF tk.cur = Stale
           THEN /\ tasks' = [tasks EXCEPT ![t] = NextKey(tk)]
                /\ UNCHANGED heap
           ELSE /\ heap' = AppendChild(heap, tk.cur,
                                       SubSeq(path, tk.si, Len(path)),
                                       tk.resp[tk.ki], heap[tk.node].name)
                /\ tasks' = [tasks EXCEPT ![t] = Descend(tk, Alloc(heap))]
    /\ last' = [op |-> "none"]
    /\ UNCHANGED <<items, store, etcdConfigs, clients, started, ui, visible,
                   mouseNode, buildVars>>

\* lines 697-708: the icon, the reset notification, SetExpanded when there
\* are children (it may fail), and node.connected = true
TaskFinish(t) ==
    /\ tasks[t].pc = "finish"
    /\ LET n == tasks[t].node
           h2 == refreshNodeIcon(heap, n, IconConnected)
       IN  \/ /\ heap[n].children # <<>>
              /\ heap' = h2
              /\ last' = Ended(t, "errExpand")
           \/ /\ heap' = [h2 EXCEPT ![n].connected = TRUE]
              /\ last' = Ended(t, "ok")
    /\ tasks' = Without(tasks, t)
    /\ UNCHANGED <<items, store, etcdConfigs, clients, started, ui, visible,
                   mouseNode, buildVars>>

\* ---- disconnect, lines 751-760
disconnectHeapToggle(h, n) ==
    [refreshNodeIcon(resetChildren(h, n), n, IconUnconnected)
        EXCEPT ![n].connected = ~h[n].connected]

\* lines 752, 757-759 on the node
disconnectHeap(h, n) ==
    [refreshNodeIcon(resetChildren(h, n), n, IconUnconnected)
        EXCEPT ![n].connected = FALSE]

\* lines 753-756: the configuration is looked up under node.rootName
disconnectHasClient(cfg, h, n) ==
    HasConfig(cfg, h[n].rootName) /\ cfg[h[n].rootName].Client # Nil

disconnectConfigs(cfg, h, n) ==
    IF disconnectHasClient(cfg, h, n)
    THEN [cfg EXCEPT ![h[n].rootName].Client = Nil] ELSE cfg

disconnectClients(cl, cfg, h, n) ==
    IF disconnectHasClient(cfg, h, n)
    THEN [cl EXCEPT ![cfg[h[n].rootName].Client] = "closed"] ELSE cl

\* ---- the handlers of the UI thread
UiIdle == ui.pc = "idle"

\* disconnect(node) as a step of the UI thread; ts is what becomes of the
\* goroutines
DoDisconnect(n, ts) ==
    /\ heap' = disconnectHeap(heap, n)
    /\ etcdConfigs' = disconnectConfigs(etcdConfigs, heap, n)
    /\ clients' = disconnectClients(clients, etcdConfigs, heap, n)
    /\ tasks' = ts

\* what the caller of connect(node) can see of the call
Connecting(n) ==
    [op |-> "connect", node |-> n, inFlight |-> InFlight(tasks, n) # {},
     connected |-> heap[n].connected,
     started |-> connectStarts(etcdConfigs, heap, n)]

\* OnMouseDown with the left button, lines 563-590, on the node of a
\* configuration: an unconnected node is connected, a click on a connected
\* one clears the key and value fields
LeftClick(n) ==
    /\ UiIdle
    /\ IF heap[n].parent # Nil /\ heap[n].key = <<>> /\ ~heap[n].connected
       THEN /\ started < MaxConnects
            /\ tasks' = connect(tasks, started, etcdConfigs, heap, n)
            /\ started' = connectCount(started, etcdConfigs, heap, n)
            /\ last' = Connecting(n)
       ELSE /\ UNCHANGED <<tasks, started>>
            /\ last' = [op |-> "none"]
    /\ UNCHANGED <<items, store, heap, etcdConfigs, clients, ui, visible, mouseNode,
                   buildVars>>

\* OnMouseDown with the right button, lines 591-615, on the node of a
\* configuration
RightClick(n) ==
    /\ UiIdle
    /\ mouseNode' = n
    /\ visible' =
          IF heap[n].parent # Nil /\ heap[n].key = <<>> /\ ~heap[n].connected
          THEN [connect |-> TRUE, reconnect |-> FALSE, disconnect |-> FALSE,
                search |-> FALSE, delete |-> TRUE]
          ELSE IF heap[n].parent # Nil /\ heap[n].key = <<>> /\ heap[n].connected
          THEN [connect |-> FALSE, reconnect |-> TRUE, disconnect |-> TRUE,
                search |-> TRUE, delete |-> TRUE]
          ELSE [connect |-> FALSE, reconnect |-> FALSE, disconnect |-> FALSE,
                search |-> FALSE, delete |-> FALSE]
    /\ last' = [op |-> "none"]
    /\ UNCHANGED <<items, store, heap, etcdConfigs, clients, tasks, started, ui,
                   buildVars>>

\* the Connect action, lines 484-491
MenuConnect ==
    /\ UiIdle
    /\ visible.connect
    /\ mouseNode # Nil
    /\ started < MaxConnects
    /\ tasks' = connect(tasks, started, etcdConfigs, heap, mouseNode)
    /\ started' = connectCount(started, etcdConfigs, heap, mouseNode)
    /\ last' = Connecting(mouseNode)
    /\ UNCHANGED <<items, store, heap, etcdConfigs, clients, ui, visible, mouseNode,
                   buildVars>>

\* the Reconnect action, lines 496-507: disconnect, then connect
MenuReconnect ==
    /\ UiIdle
    /\ visible.reconnect
    /\ mouseNode # Nil
    /\ started < MaxConnects
    /\ DoDisconnect(mouseNode,
                    connect(dropCursors(tasks, heap, mouseNode), started,
                            etcdConfigs, heap, mouseNode))
    /\ started' = connectCount(started, etcdConfigs, heap, mouseNode)
    /\ last' = [op |-> "reconnect", node |-> mouseNode,
                inFlight |-> InFlight(tasks, mouseNode) # {}, resets |-> 1]
    /\ UNCHANGED <<items, store, ui, visible, mouseNode, buildVars>>

\* the Disconnect action, lines 512-519
MenuDisconnect ==
    /\ UiIdle
    /\ visible.disconnect
    /\ mouseNode # Nil
    /\ DoDisconnect(mouseNode, dropCursors(tasks, heap, mouseNode))
    /\ last' = [op |-> "disconnect", node |-> mouseNode,
                pre |-> RootState(heap, etcdConfigs, mouseNode),
                inFlight |-> InFlight(tasks, mouseNode) # {}, resets |-> 1]
    /\ UNCHANGED <<items, store, started, ui, visible, mouseNode, buildVars>>

\* ---- search, lines 715-749
\* the guard of line 716
searchGuard(cfg, h, n) ==
    HasConfig(cfg, h[n].name) /\ cfg[h[n].name].Client # Nil

\* the Search action, lines 524-533, with the key typed in the dialog, and
\* search up to the call of Client.Get (lines 716-719), in which the UI
\* thread then waits.  Without a client search does nothing (line 747).
MenuSearch(k) ==
    /\ UiIdle
    /\ visible.search
    /\ mouseNode # Nil
    /\ IF searchGuard(etcdConfigs, heap, mouseNode)
       THEN /\ heap' = resetChildren(heap, mouseNode)
            /\ tasks' = dropCursors(tasks, heap, mouseNode)
            /\ ui' = [pc |-> "search", node |-> mouseNode, key |-> k,
                      client |-> etcdConfigs[heap[mouseNode].name].Client,
                      connected |-> heap[mouseNode].connected,
                      had |-> heap[mouseNode].children # <<>>]
       ELSE UNCHANGED <<heap, tasks, ui>>
    /\ last' = [op |-> "search", node |-> mouseNode, key |-> k,
                pre |-> RootState(heap, etcdConfigs, mouseNode),
                issued |-> searchGuard(etcdConfigs, heap, mouseNode),
                inFlight |-> InFlight(tasks, mouseNode) # {},
                err |-> FALSE]
    /\ UNCHANGED <<items, store, etcdConfigs, clients, started, visible, mouseNode,
                   buildVars>>

\* lines 731-735
searchIcon(k) == IF k = <<>> THEN IconConnected ELSE IconSearch

\* Client.Get returns and search runs to its end, lines 720-745: on an error
\* it reports and returns; otherwise it adds the keys, sets the icon and
\* expands the node when it has children (which may fail)
SearchReturn ==
    /\ ui.pc = "search"
    /\ LET n == ui.node
           built == refreshNodeIcon(
                        addKeys(heap, n, GetPrefix(store, ui.key)),
                        n, searchIcon(ui.key))
           done(ok, resets) ==
               [op |-> "searchEnd", node |-> n, key |-> ui.key,
                connected |-> ui.connected, ok |-> ok, err |-> ~ok,
                changed |-> ui.had \/ heap'[n].children # <<>>,
                resets |-> resets]
       IN  \/ /\ UNCHANGED heap
              /\ last' = done(FALSE, 0)
           \/ /\ clients[ui.client] = "open"
              /\ heap' = built
              /\ \/ /\ built[n].children # <<>>
                    /\ last' = done(FALSE, 1)
                 \/ last' = done(TRUE, 1)
    /\ ui' = [pc |-> "idle", node |-> Nil, key |-> <<>>]
    /\ UNCHANGED <<items, store, etcdConfigs, clients, tasks, started, visible,
                   mouseNode, buildVars>>

Next ==
    \/ \E n \in Roots : LeftClick(n)
    \/ \E n \in Roots : RightClick(n)
    \/ MenuConnect
    \/ MenuReconnect
    \/ MenuDisconnect
    \/ \E k \in SearchKeys : MenuSearch(k)
    \/ SearchReturn
    \/ \E t \in DOMAIN tasks : TaskNew(t)
    \/ \E t \in DOMAIN tasks : TaskStatus(t)
    \/ \E t \in DOMAIN tasks : TaskGet(t)
    \/ \E t \in DOMAIN tasks : TaskScan(t)
    \/ \E t \in DOMAIN tasks : TaskAppend(t)
    \/ \E t \in DOMAIN tasks : TaskFinish(t)

Spec == Init /\ [][Next]_vars

\* ---------------------------------------------- the registry specification
\* The program with the Add New Connection dialog and the Delete action: the
\* user adds and deletes configurations, and connects to them, over one
\* store.  The user of this specification clicks a node to connect only when
\* no connect is running.

\* the names the user may type in the dialog: the configured one, which is a
\* new name once its configuration has been deleted
AddNames == {RootName1}

\* the nodes made by the Save handler (line 377): their parent is the "All"
\* node, whose children do not hold them
Announced(h) ==
    {x \in DOMAIN h : h[x].parent = AllId} \ Range(h[AllId].children)

InitRegistry ==
    /\ Init
    /\ store = { <<"/", "a", "/", "b">> }

\* line 357 with every name taken for free
saveRejectsNone(cfg, nm) == FALSE

\* line 357: etcdConfigs[ec.Name] != nil
saveRejects(cfg, nm) == HasConfig(cfg, nm)

\* what the Save handler did: whether it called ioutil.WriteFile (line 367)
\* and how many nodes it announced with PublishItemInserted (line 377)
Saved(nm, outcome) ==
    [op |-> "add", name |-> nm, outcome |-> outcome,
     wrote |-> outcome \in {"errWrite", "ok"},
     inserted |-> IF outcome = "ok" THEN 1 ELSE 0]

\* the Save button of the dialog, lines 350-380, with the name typed
SaveClicked(nm) ==
    /\ UiIdle
    /\ Cardinality(Announced(heap)) < MaxAdds
    /\ \/ /\ last' = Saved(nm, "errSubmit")
          /\ UNCHANGED <<heap, etcdConfigs, items>>
       \/ /\ saveRejects(etcdConfigs, nm)
          /\ last' = Saved(nm, "exists")
          /\ UNCHANGED <<heap, etcdConfigs, items>>
       \/ /\ ~saveRejects(etcdConfigs, nm)
          /\ etcdConfigs' = (nm :> [Client |-> Nil]) @@ etcdConfigs
          /\ \/ /\ \E o \in {"errMarshal", "errWrite"} : last' = Saved(nm, o)
                /\ UNCHANGED <<heap, items>>
             \/ /\ heap' = (Alloc(heap) :>
                               newNode(nm, <<>>, IconUnconnected, <<>>, AllId))
                            @@ heap
                /\ items' = items \cup {Alloc(heap)}
                /\ last' = Saved(nm, "ok")
    /\ UNCHANGED <<store, clients, tasks, started, ui, visible, mouseNode,
                   buildVars>>

\* delete(etcdConfigs, node.name), line 541
deleteConfig(cfg, nm) == [x \in DOMAIN cfg \ {nm} |-> cfg[x]]

\* the goroutines that hold the deleted configuration keep it; what they
\* store in it is no longer in etcdConfigs
detach(ts, nm) ==
    [t \in DOMAIN ts |->
        IF ts[t].name = nm THEN [ts[t] EXCEPT !.ecInMap = FALSE] ELSE ts[t]]

\* the Delete action, lines 538-557: the configuration is deleted and the
\* map written to config.json; then the node is disconnected and removed
\* from the view, so that the position of the menu is over another item or
\* over none
MenuDelete ==
    /\ UiIdle
    /\ visible.delete
    /\ mouseNode # Nil
    /\ LET n == mouseNode
           cfg == deleteConfig(etcdConfigs, heap[n].name)
           ts == detach(tasks, heap[n].name)
       IN  \/ /\ etcdConfigs' = cfg
              /\ tasks' = ts
              /\ last' = [op |-> "delete", node |-> n, ok |-> FALSE]
              /\ UNCHANGED <<heap, clients, items, mouseNode>>
           \/ /\ heap' = disconnectHeap(heap, n)
              /\ etcdConfigs' = disconnectConfigs(cfg, heap, n)
              /\ clients' = disconnectClients(clients, cfg, heap, n)
              /\ tasks' = dropCursors(ts, heap, n)
              /\ items' = items \ {n}
              /\ mouseNode' \in items' \cup {Nil}
              /\ last' = [op |-> "delete", node |-> n, ok |-> TRUE]
    /\ UNCHANGED <<store, started, ui, visible, buildVars>>

\* ---- the fetch of a key's value, lines 568-589
\* the keys shown below the items of the view
ViewLeaves == UNION {Leaves(heap, n) : n \in items}

\* line 569: the configuration is looked up under the rootName of the leaf
getValueHasClient(cfg, h, x) ==
    HasConfig(cfg, h[x].rootName) /\ cfg[h[x].rootName].Client # Nil

\* lines 569-585: how the fetch of the key of leaf x can end: without a
\* client nothing is done (the TODO of line 587); client.Get may fail, and
\* fails on a closed client; the response holds the key or does not
getValue(cfg, cl, st, h, x) ==
    IF ~getValueHasClient(cfg, h, x) THEN {"noHandle"}
    ELSE IF cl[cfg[h[x].rootName].Client] # "open" THEN {"error"}
    ELSE {"error", IF h[x].key \in st THEN "found" ELSE "absent"}

\* the nodes after a fetch that drops the siblings of the leaf
getValueNodesReset(h, x) == resetChildren(h, h[x].parent)

\* lines 568-589 assign no field of any node
getValueNodes(h, x) == h

\* OnMouseDown with the left button on a leaf, lines 568-589
LeafClick(x) ==
    /\ UiIdle
    /\ IsLeaf(heap, x)
    /\ heap' = getValueNodes(heap, x)
    /\ \E o \in getValue(etcdConfigs, clients, store, heap, x) :
           last' = [op |-> "getValue", node |-> x, outcome |-> o]
    /\ UNCHANGED <<items, store, etcdConfigs, clients, tasks, started, ui,
                   visible, mouseNode, buildVars>>

\* another user of the store deletes a key
StoreDelete(k) ==
    /\ k \in store
    /\ store' = store \ {k}
    /\ last' = [op |-> "none"]
    /\ UNCHANGED <<heap, items, etcdConfigs, clients, tasks, started, ui,
                   visible, mouseNode, buildVars>>

NextRegistry ==
    \/ \E nm \in AddNames : SaveClicked(nm)
    \/ MenuDelete
    \/ \E n \in items : tasks = <<>> /\ LeftClick(n)
    \/ \E n \in items : RightClick(n)
    \/ \E t \in DOMAIN tasks : TaskNew(t)
    \/ \E t \in DOMAIN tasks : TaskStatus(t)
    \/ \E t \in DOMAIN tasks : TaskGet(t)
    \/ \E t \in DOMAIN tasks : TaskScan(t)
    \/ \E t \in DOMAIN tasks : TaskAppend(t)
    \/ \E t \in DOMAIN tasks : TaskFinish(t)

SpecRegistry == InitRegistry /\ [][NextRegistry]_vars

\* ------------------------------------------------- the value specification
\* The program with the clicks on keys: the user connects, one connect at a
\* time, clicks the keys of the tree and deletes configurations, while
\* another user of the store deletes keys.
NextValue ==
    \/ \E x \in ViewLeaves : LeafClick(x)
    \/ \E k \in StoreKeys : StoreDelete(k)
    \/ MenuDelete
    \/ \E n \in items : tasks = <<>> /\ LeftClick(n)
    \/ \E n \in items : RightClick(n)
    \/ \E t \in DOMAIN tasks : TaskNew(t)
    \/ \E t \in DOMAIN tasks : TaskStatus(t)
    \/ \E t \in DOMAIN tasks : TaskGet(t)
    \/ \E t \in DOMAIN tasks : TaskScan(t)
    \/ \E t \in DOMAIN tasks : TaskAppend(t)
    \/ \E t \in DOMAIN tasks : TaskFinish(t)

SpecValue == Init /\ [][NextValue]_vars

\* ------------------------------------------------- the roots specification
\* The program with two configurations over one store: the user connects,
\* searches, disconnects and clicks keys on both nodes; a node is clicked to
\* connect only when no connect is running on it, so the goroutines that
\* run together belong to different nodes.
TwoRoots == <<RootName1, RootName2>>

InitRoots ==
    /\ store = { <<"/", "a">> }
    /\ heap = newNodeTreeModel(TwoRoots)
    /\ etcdConfigs = [nm \in Range(TwoRoots) |-> [Client |-> Nil]]
    /\ clients = <<>>
    /\ tasks = <<>>
    /\ started = 0
    /\ ui = [pc |-> "idle", node |-> Nil, key |-> <<>>]
    /\ visible = [connect |-> TRUE, reconnect |-> TRUE, disconnect |-> TRUE,
                  search |-> TRUE, delete |-> TRUE]
    /\ mouseNode = Nil
    /\ items = Range(heap[AllId].children)
    /\ last = [op |-> "none"]
    /\ bKeys = <<>>
    /\ bIdx = 1
    /\ bPass = 0
    /\ bFirst = <<>>

NextRoots ==
    \/ \E n \in Roots : InFlight(tasks, n) = {} /\ LeftClick(n)
    \/ \E n \in Roots : RightClick(n)
    \/ MenuDisconnect
    \/ \E k \in SearchKeys : MenuSearch(k)
    \/ SearchReturn
    \/ \E x \in ViewLeaves : LeafClick(x)
    \/ \E t \in DOMAIN tasks : TaskNew(t)
    \/ \E t \in DOMAIN tasks : TaskStatus(t)
    \/ \E t \in DOMAIN tasks : TaskGet(t)
    \/ \E t \in DOMAIN tasks : TaskScan(t)
    \/ \E t \in DOMAIN tasks : TaskAppend(t)
    \/ \E t \in DOMAIN tasks : TaskFinish(t)

SpecRoots == InitRoots /\ [][NextRoots]_vars

\* ------------------------------------------------------------ the claims
\* the tree that the listing of connect builds below an empty root n
ListingShape(n) ==
    Shape(addKeys(resetChildren(heap, n), n, GetPrefix(store, <<"/">>)), n)

\* the tree built below an empty root n from the keys that start with k
PrefixShape(n, k) ==
    Shape(addKeys(resetChildren(heap, n), n, GetPrefix(store, k)), n)

Disconnected(rs) ==
    rs.children = <<>> /\ rs.icon = IconUnconnected /\ ~rs.connected

\* C1: when disconnect(root) has returned, the root has no children, and the
\* client its session held is closed and no longer stored.
C1_DisconnectReleases ==
    last.op = "disconnect" =>
        /\ heap[last.node].children = <<>>
        /\ ClientOf(etcdConfigs, heap[last.node].name) = Nil
        /\ last.pre.client # Nil => clients[last.pre.client] = "closed"

\* C2: a root becomes connected only in the step in which a connect attempt
\* ends after its client construction, probe and listing all succeeded; and
\* when an attempt ends because one of them failed, the root is not
\* connected and has no children.
C2_ConnectedOnlyAfterSuccess ==
    [][ /\ \A n \in Roots :
             (heap'[n].connected /\ ~heap[n].connected) =>
                 (last'.op = "connectEnd" /\ last'.node = n
                    /\ last'.result = "ok")
        /\ (last'.op = "connectEnd"
              /\ last'.result \in {"errNew", "errStatus", "errGet"}) =>
                 (~heap'[last'.node].connected
                    /\ heap'[last'.node].children = <<>>) ]_vars

\* C3: when a connect attempt ends in a failure of client construction, of
\* the probe or of the listing, the client it created is closed, the session
\* stores no client, the root's icon is the unconnected one and an error was
\* reported.
C3_FailedConnectReleases ==
    (last.op = "connectEnd"
        /\ last.result \in {"errNew", "errStatus", "errGet"}) =>
        /\ last.client # Nil => clients[last.client] = "closed"
        /\ ClientOf(etcdConfigs, last.name) = Nil
        /\ heap[last.node].icon = IconUnconnected
        /\ last.err

\* C4: at most one connect goroutine runs per root, and a connect invoked on
\* a root that is connecting or connected starts none.
C4_OneConnectInFlight ==
    /\ \A n \in Roots : Cardinality(InFlight(tasks, n)) <= 1
    /\ (last.op = "connect" /\ (last.inFlight \/ last.connected))
          => ~last.started

\* C5: a search invoked on a root that is not connected issues no query,
\* changes neither the root's children, icon, connected flag nor its stored
\* client, and signals an error.
C5_SearchUnconnectedRejected ==
    (last.op = "search" /\ ~last.pre.connected) =>
        /\ ~last.issued
        /\ RootState(heap, etcdConfigs, last.node) = last.pre
        /\ last.err

\* C6: a successful search with the empty key on a connected root leaves
\* below the root the tree that the listing of connect builds from the same
\* store.
C6_EmptySearchEqualsListing ==
    (last.op = "searchEnd" /\ last.ok /\ last.connected /\ last.key = <<>>)
        => Shape(heap, last.node) = ListingShape(last.node)

C10_DisconnectIdempotent ==
    (last.op = "disconnect" /\ Disconnected(last.pre)) =>
        RootState(heap, etcdConfigs, last.node) = last.pre

\* disconnect has just run on a root that an earlier disconnect had left
\* disconnected
C10_Witness ==
    /\ last.op = "disconnect"
    /\ Disconnected(last.pre)
    /\ started >= 1

\* C11: every connect attempt, search and disconnect, whether it succeeds or
\* fails, has published exactly one reset notification for the root when it
\* ends; and a search that changed the root's children has published one.
C11_OneResetPerTransition ==
    /\ last.op \in {"connectEnd", "searchEnd", "disconnect", "reconnect"}
          => last.resets = 1
    /\ (last.op = "searchEnd" /\ last.changed) => last.resets >= 1

C13_GetValueChangesNothing ==
    [][ last'.op = "getValue" =>
            /\ heap' = heap
            /\ etcdConfigs' = etcdConfigs
            /\ clients' = clients
            /\ tasks' = tasks
            /\ items' = items ]_vars

\* the value of a key was fetched and found, for a leaf that lies below a
\* directory node
C13_Witness ==
    /\ last.op = "getValue"
    /\ last.outcome = "found"
    /\ heap[last.node].parent \notin items

\* C14: for every root, its configuration stores a client only while the
\* root is connected; it stores none while the root is disconnected, while a
\* connect is running and after a failed connect.
C14_ClientOnlyWhileConnected ==
    \A n \in Roots :
        ClientOf(etcdConfigs, heap[n].name) # Nil => heap[n].connected

\* C15: a root that is not connected, has no connect running and is not
\* being searched has no children.
C15_ChildrenOnlyWhileConnected ==
    \A n \in Roots :
        (~heap[n].connected /\ InFlight(tasks, n) = {} /\ ui.node # n)
            => heap[n].children = <<>>

\* C16: in the tree built by addNode every node below the root is a leaf (it
\* carries a key and has no children) or a directory (it carries no key); so
\* every node that has children carries no key.
C16_LeafOrDirectory ==
    \A x \in Descendants(heap, BuildRoot) :
        \/ heap[x].key # <<>> /\ heap[x].children = <<>>
        \/ heap[x].key = <<>>

\* the nodes of the tree: what is reached through children from the "All"
\* node and from the items of the view
TreeNodes ==
    {AllId} \cup Descendants(heap, AllId) \cup items
        \cup UNION {Descendants(heap, n) : n \in items}

\* how many times c is listed among the children of p
Occurrences(p, c) ==
    Cardinality({i \in 1..Len(heap[p].children) : heap[p].children[i] = c})

\* C17: every node of the tree but "All" is listed exactly once among the
\* children of the node its parent pointer names, and every listed child
\* names the node that lists it as its parent; so a node announced by Save
\* is a child of "All", and a node removed by Delete is no longer one.
C17_ParentChildConsistent ==
    /\ \A x \in TreeNodes \ {AllId} :
          /\ heap[x].parent \in DOMAIN heap
          /\ Occurrences(heap[x].parent, x) = 1
    /\ \A p \in TreeNodes : \A c \in Range(heap[p].children) :
          heap[c].parent = p
    /\ Range(heap[AllId].children) \subseteq items

\* the labels of the children of p, in sibling order
ChildNames(p) == [i \in 1..Len(heap[p].children) |-> heap[heap[p].children[i]].name]

\* C18: in every state, whatever the interleaving of connects, searches and
\* disconnects, no two children of one node share a label.
C18_SiblingLabelsDistinct ==
    \A p \in TreeNodes : Distinct(ChildNames(p))

\* C19: while a connect goroutine runs on a root, no disconnect (alone or as
\* the first half of a reconnect) and no search runs on that root: none is
\* carried out with a goroutine in flight, and no search waits for its query
\* while one is.
C19_OperationsSerialized ==
    /\ last.op \in {"disconnect", "reconnect"} => ~last.inFlight
    /\ (last.op = "search" /\ last.issued) => ~last.inFlight
    /\ ui.pc = "search" => InFlight(tasks, ui.node) = {}

\* C20: when a connect has ended successfully, the keys of the leaves below
\* the root are exactly the keys its listing returned, and the tree below the
\* root is the one built from that listing on an empty root: nothing is left
\* of an earlier connect, of a concurrent connect or of an earlier search.
\* (The store does not change in a behaviour, so the listing of the connect
\* that ended is the listing of the store.)
C20_ConnectRebuildsFromScratch ==
    (last.op = "connectEnd" /\ last.result = "ok") =>
        /\ LeafKeys(heap, last.node) = Range(GetPrefix(store, <<"/">>))
        /\ Shape(heap, last.node) = ListingShape(last.node)

\* a step of an operation on root a: a click on the node or on a key below
\* it, a menu action on it, the return of its search, a step of one of its
\* connect goroutines
StepOn(a) ==
    \/ LeftClick(a)
    \/ mouseNode = a /\ (MenuConnect \/ MenuReconnect \/ MenuDisconnect)
    \/ mouseNode = a /\ \E k \in SearchKeys : MenuSearch(k)
    \/ ui.node = a /\ SearchReturn
    \/ \E x \in Leaves(heap, a) : LeafClick(x)
    \/ \E t \in InFlight(tasks, a) :
          \/ TaskNew(t) \/ TaskStatus(t) \/ TaskGet(t)
          \/ TaskScan(t) \/ TaskAppend(t) \/ TaskFinish(t)

\* root b with all that hangs below it, and the client of its configuration
TreeOf(h, cfg, b) ==
    [nodes |-> [x \in {b} \cup Descendants(h, b) |-> h[x]],
     client |-> ClientOf(cfg, h[b].name)]

\* C21: a step of a connect, search, disconnect or key fetch on one root
\* leaves every other root as it was: its children and all below them, its
\* icon, its connected flag and its configuration's client; and whenever
\* any of these changes for a root, the step is one of that root's own
\* operations.
C21_RootsIndependent ==
    [][ \A b \in Roots :
          /\ \A a \in Roots \ {b} :
                StepOn(a) => TreeOf(heap', etcdConfigs', b)
                                = TreeOf(heap, etcdConfigs, b)
          /\ TreeOf(heap', etcdConfigs', b) # TreeOf(heap, etcdConfigs, b)
                => StepOn(b) ]_vars

\* both roots are connected with their keys shown, each with a client of its
\* own, and the last thing that happened is the end of a connect
C21_Witness ==
    /\ last.op = "connectEnd"
    /\ \A n \in Roots :
          /\ heap[n].connected
          /\ heap[n].children # <<>>
          /\ ClientOf(etcdConfigs, heap[n].name) # Nil
    /\ Cardinality({ClientOf(etcdConfigs, heap[n].name) : n \in Roots}) = 2

====
